---- MODULE Spec2Model ----
(***************************************************************************)
(* Task lifecycle of the video-creator server: the /api/generate handler,   *)
(* the background runner generate_video_task, VideoGenerator.poll_status    *)
(* and download_video, and the history file written by save_history.        *)
(*                                                                          *)
(* Python values: None is <<>> and a value v is <<v>> wherever a value may  *)
(* be None or a dict key / object attribute may be missing.                 *)
(***************************************************************************)
EXTENDS Integers, Sequences, FiniteSets, TLC

\* ------------------------------------------------------------- bounds
\* Runner threads (accepted generation requests) in one process lifetime.
MaxRequests == 2
\* Size of the space str(uuid.uuid4())[:8] draws task ids from.
NumIds == 2
\* Seconds a slow status query takes to answer.
SlowLatency == 295
\* The reading at which the model's poll clock saturates.
MaxClock == 2000
\* Restarts of the server process.
MaxBoots == 2

\* -------------------------------------------------- program constants
POLL_INTERVAL == 5
MAX_POLL_TIME == 600
DEFAULT_DURATION == 5

None == <<>>
Some(v) == <<v>>
Val(x) == x[1]

\* Python truthiness of an optional string: None and "" are falsy.
Truthy(x) == x # None /\ Val(x) # ""

\* str(x) of an optional string.
Str(x) == IF x = None THEN "None" ELSE Val(x)

Threads == 1..MaxRequests
TaskIds == 1..NumIds

\* reply is the last HTTP reply the server sent; boot counts the starts of the
\* server process.
VARIABLES tasks, threads, history, videos, uploads, now, reply, boot

vars == <<tasks, threads, history, videos, uploads, now, reply, boot>>

\* ------------------------------------------------------- request inputs
ImageOk == "img1.png"
VideoOk == "vid1.mp4"
Gone == "gone.bin"

\* text.strip(): the model's whitespace-only text is " ".
Strip(t) == IF t = " " THEN "" ELSE t

Request(mode, text, image_id, video_id, enhance) ==
    [mode |-> mode, text |-> text, image_id |-> image_id,
     video_id |-> video_id, enhance_prompt |-> enhance]

\* Every request shape of the model.
AllRequests ==
    { Request(m, t, i, v, e) :
        m \in {"text2video", "image2video", "edit", "other"},
        t \in {"", " ", "cat"},
        i \in {None, Some(ImageOk), Some(Gone)},
        v \in {None, Some(VideoOk), Some(Gone)},
        e \in BOOLEAN }

\* os.path.join(UPLOADS_DIR, file_id) if file_id else None
UploadPath(file_id) == IF file_id = None THEN None ELSE Some(<<"uploads", Val(file_id)>>)

\* os.path.exists(path) for an upload path
UploadExists(path) == Val(path)[2] \in uploads

\* The 400 replies of generate(), in the order the handler tests them;
\* "" when the request passes validation.
ValidationError(req) ==
    IF req.mode = "text2video" /\ Strip(req.text) = ""
      THEN "Text prompt is required for text-to-video mode"
    ELSE IF req.mode = "image2video" /\ req.image_id = None
      THEN "Image is required for image-to-video mode"
    ELSE IF req.mode = "edit" /\ req.image_id = None /\ req.video_id = None
      THEN "Image or video is required for edit mode"
    ELSE IF req.image_id # None /\ ~UploadExists(UploadPath(req.image_id))
      THEN "Upload image not found"
    ELSE IF req.video_id # None /\ ~UploadExists(UploadPath(req.video_id))
      THEN "Uploaded video not found"
    ELSE ""

\* ------------------------------------------------------------ task store
Progress(stage, status, elapsed) == [stage |-> stage, status |-> status, elapsed |-> elapsed]
Stage(s) == Progress(s, "", 0)

\* The dict generate() stores under a new task id; keys the dict does not
\* hold yet are None.
NewTask(id, req, created) ==
    [id |-> id,
     status |-> "pending",
     progress |-> Stage("Starting..."),
     created_at |-> created,
     params |-> [mode |-> req.mode, prompt |-> req.text,
                 ratio |-> "16:9", duration |-> DEFAULT_DURATION],
     elapsed |-> None,
     enhanced_prompt |-> None,
     completed_at |-> None,
     result |-> None,
     error |-> None]

\* tasks[k] = v on a dict
Put(d, k, v) == [x \in (DOMAIN d) \cup {k} |-> IF x = k THEN v ELSE d[x]]

\* SetField on a store whose records share one dict.
SetFieldShared(d, id, key, v) == [x \in DOMAIN d |-> [d[x] EXCEPT ![key] = v]]

\* tasks[id][key] = v
SetField(d, id, key, v) == [d EXCEPT ![id] = [d[id] EXCEPT ![key] = v]]

\* ----------------------------------------------------------- runner state
NoResponse ==
    [status |-> "", content |-> "absent", c_video_url |-> None, c_video |-> None,
     video_url |-> None, error |-> None]

\* A job's content list: the source file and the text item, each optional.
Content(source, text) == [source |-> source, text |-> text]
NoContent == Content(None, None)

\* A runner thread: args_text is the text generate() passed to the thread;
\* text, the runner's working prompt; content, clock, elapsed and get_result
\* are locals of the generator and of poll_status; exc is the last exception
\* the thread caught.
IdleThread ==
    [pc |-> "idle", task_id |-> 0, mode |-> "", args_text |-> "", text |-> "",
     image_path |-> None, video_path |-> None, enhance_prompt |-> FALSE,
     content |-> NoContent, clock |-> 0, elapsed |-> 0, get_result |-> NoResponse,
     result |-> None, exc |-> "", error_msg |-> ""]

\* The thread generate() starts: threading.Thread(target=generate_video_task, args=...)
StartedThread(id, req) ==
    [IdleThread EXCEPT !.pc = "start", !.task_id = id, !.mode = req.mode,
                       !.args_text = req.text, !.text = req.text,
                       !.image_path = UploadPath(req.image_id),
                       !.video_path = UploadPath(req.video_id),
                       !.enhance_prompt = req.enhance_prompt]

\* An HTTP reply: its status code and what its body is.
Reply(code, body) == [code |-> code, body |-> body]
NoReply == Reply(0, "")

Init ==
    /\ tasks = <<>>
    /\ threads = [t \in Threads |-> IdleThread]
    /\ history = [exists |-> FALSE, content |-> None]
    /\ videos = {}
    /\ uploads = {ImageOk, VideoOk}
    /\ now = 0
    /\ reply = NoReply
    /\ boot = 0

\* ------------------------------------------------------- POST /api/generate
\* The next runner thread: threads are numbered in the order they start.
NextThread(t) == threads[t].pc = "idle" /\ \A u \in Threads : u < t => threads[u].pc # "idle"

\* Lines 210-228: a request that fails validation gets a 400 and changes
\* nothing.
GenerateRejected(reqs) ==
    /\ {req \in reqs : ValidationError(req) # ""} # {}
    /\ reply' = Reply(400, "invalid")
    /\ UNCHANGED <<tasks, threads, history, videos, uploads, now, boot>>

GenerateAccepted(t, reqs) ==
    /\ NextThread(t)
    /\ \E req \in reqs, id \in TaskIds :
         /\ ValidationError(req) = ""
         /\ tasks' = Put(tasks, id, NewTask(id, req, now + 1))
         /\ threads' = [threads EXCEPT ![t] = StartedThread(id, req)]
    /\ now' = now + 1
    /\ reply' = Reply(200, "task")
    /\ UNCHANGED <<history, videos, uploads, boot>>

\* ------------------------------------------------------ remote responses
\* An attribute of a response object: <<>> when the object has no such
\* attribute (hasattr is False), <<v>> when it has, v an optional string.
NoAttr == <<>>
Attr(v) == <<v>>
HasAttr(a) == a # NoAttr

UrlContent == "https://cdn/content_video_url.mp4"
UrlVideo == "https://cdn/content_video.webm"
UrlTop == "https://cdn/top_video_url"

AttrValues(url) == {NoAttr, Attr(None), Attr(Some("")), Attr(Some(url))}

Response(status, content, cu, cv, tu, err) ==
    [status |-> status, content |-> content, c_video_url |-> cu, c_video |-> cv,
     video_url |-> tu, error |-> err]

NonTerminalResponses ==
    { Response(s, "absent", NoAttr, NoAttr, NoAttr, NoAttr) : s \in {"queued", "running"} }

FailedResponses ==
    { Response("failed", "absent", NoAttr, NoAttr, NoAttr, e) :
        e \in {NoAttr, Attr(None), Attr(Some("quota exceeded"))} }

\* content: "absent" (no attribute), "none" (falsy) or "object".
SucceededResponses ==
    { Response("succeeded", "object", cu, cv, tu, NoAttr) :
        cu \in AttrValues(UrlContent), cv \in AttrValues(UrlVideo),
        tu \in AttrValues(UrlTop) }
    \cup
    { Response("succeeded", c, NoAttr, NoAttr, tu, NoAttr) :
        c \in {"absent", "none"}, tu \in AttrValues(UrlTop) }

AllResponses == NonTerminalResponses \cup FailedResponses \cup SucceededResponses

\* poll_status, lines 102-119: the video URL of a succeeded response.
ContentUrl(resp) ==
    IF resp.content = "object"
      THEN IF HasAttr(resp.c_video_url) THEN Val(resp.c_video_url)
           ELSE IF HasAttr(resp.c_video) THEN Val(resp.c_video)
           ELSE None
      ELSE None

\* ExtractVideoUrl with the fallback taken whenever the response has a
\* top-level video_url.
ExtractTopFirst(resp) ==
    IF HasAttr(resp.video_url) THEN Val(resp.video_url) ELSE ContentUrl(resp)

ExtractVideoUrl(resp) ==
    IF ~Truthy(ContentUrl(resp)) /\ HasAttr(resp.video_url)
      THEN Val(resp.video_url)
      ELSE ContentUrl(resp)

\* The dicts poll_status returns; a key a dict does not hold is None.  The
\* keys task_id and raw_result, which no code reads, are left out.
PollResult(status, video_url, err) ==
    [status |-> status, video_url |-> video_url, error |-> err, local_path |-> None]

TimeoutResult == PollResult("timeout", None, Some("Task timed out after 600s"))

SucceededResult(resp) == PollResult("succeeded", ExtractVideoUrl(resp), None)

\* str(getattr(get_result, 'error', 'Unknown error'))
RemoteErrorText(resp) == IF HasAttr(resp.error) THEN Str(Val(resp.error)) ELSE "Unknown error"

FailedResult(resp) == PollResult("failed", None, Some(RemoteErrorText(resp)))

\* --------------------------------------------------------- download_video
EndsWith(url, suffix) ==
    \/ url = UrlContent /\ suffix = ".mp4"
    \/ url = UrlVideo /\ suffix = ".webm"

\* 'mp4' in content_type / 'webm' in content_type
Mentions(content_type, word) ==
    \/ content_type = "video/mp4" /\ word = "mp4"
    \/ content_type = "video/webm" /\ word = "webm"

Extension(content_type, url) ==
    IF Mentions(content_type, "mp4") \/ EndsWith(url, ".mp4") THEN ".mp4"
    ELSE IF Mentions(content_type, "webm") \/ EndsWith(url, ".webm") THEN ".webm"
    ELSE ".mp4"

\* os.path.join(VIDEOS_DIR, f"video_{task_id}{ext}")
OutputPath(id, ext) == <<"videos", id, ext>>

\* os.path.basename(path)
Basename(path) == <<path[2], path[3]>>

\* What the network and the disk do to one download: the request fails
\* ("request"), the write fails after the file was opened ("write"), or the
\* file is written ("ok").
Download(outcome, content_type) == [outcome |-> outcome, content_type |-> content_type]

AllDownloads ==
    { Download(o, c) : o \in {"ok", "write"}, c \in {"video/mp4", "video/webm", ""} }
    \cup {Download("request", "")}

\* ------------------------------------------------ generate_video_task
\* What the outside world may do to one run: env.raises names the calls that
\* may raise, env.enhanced the texts the prompt enhancer may return,
\* env.responses the answers to a status query, env.latencies the seconds a
\* status query may take, env.downloads the outcomes of a download.
Environment(requests, raises, enhanced, responses, latencies, downloads) ==
    [requests |-> requests, raises |-> raises, enhanced |-> enhanced,
     responses |-> responses, latencies |-> latencies, downloads |-> downloads]

At(t, pc) == threads[t].pc = pc
Id(t) == threads[t].task_id

Goto(t, pc) == threads' = [threads EXCEPT ![t].pc = pc]

\* Caught for a call made outside the try block: the thread dies.
Uncaught(th, e) == [th EXCEPT !.pc = "crashed", !.exc = e]

\* An exception raised inside the try block of generate_video_task unwinds
\* the frames below the runner and reaches its "except Exception as e"
\* clause (line 156).
Caught(th, e) ==
    [th EXCEPT !.content = NoContent, !.clock = 0, !.elapsed = 0,
               !.get_result = NoResponse, !.pc = "except", !.exc = e]

Raise(t, e) == threads' = [threads EXCEPT ![t] = Caught(threads[t], e)]

EnhanceError == "prompt enhancement error"

\* Lines 79-80.
RunnerStart(t) ==
    /\ At(t, "start")
    /\ tasks' = [tasks EXCEPT ![Id(t)].status = "processing",
                              ![Id(t)].progress = Stage("Initializing...")]
    /\ Goto(t, "construct")
    /\ UNCHANGED <<history, videos, uploads, now, reply, boot>>

\* Line 85: "if enhance_prompt and text".
WantsEnhance(t) == threads[t].enhance_prompt /\ threads[t].text # ""

\* Lines 82-86: VideoGenerator() returns, then the enhancement test.
Construct(t) ==
    /\ At(t, "construct")
    /\ IF WantsEnhance(t)
         THEN /\ tasks' = SetField(tasks, Id(t), "progress", Stage("Enhancing prompt with AI..."))
              /\ Goto(t, "enhance")
         ELSE /\ Goto(t, "dispatch")
              /\ UNCHANGED tasks
    /\ UNCHANGED <<history, videos, uploads, now, reply, boot>>

\* Line 82: VideoGenerator() raises.
ConstructRaises(t, env) ==
    /\ At(t, "construct")
    /\ "construct" \in env.raises
    /\ Raise(t, "ark client error")
    /\ UNCHANGED <<tasks, history, videos, uploads, now, reply, boot>>

\* Enhance that also stores the enhanced text as the record's prompt.
EnhanceOverwritesPrompt(t, env) ==
    /\ At(t, "enhance")
    /\ \E e \in env.enhanced :
         /\ threads' = [threads EXCEPT ![t].text = e, ![t].pc = "dispatch"]
         /\ tasks' = [tasks EXCEPT ![Id(t)].enhanced_prompt = Some(e),
                                   ![Id(t)].params.prompt = e]
    /\ UNCHANGED <<history, videos, uploads, now, reply, boot>>

\* Lines 88-92: the enhancer returns; the working prompt is replaced and
\* recorded.
Enhance(t, env) ==
    /\ At(t, "enhance")
    /\ \E e \in env.enhanced :
         /\ threads' = [threads EXCEPT ![t].text = e, ![t].pc = "dispatch"]
         /\ tasks' = SetField(tasks, Id(t), "enhanced_prompt", Some(e))
    /\ UNCHANGED <<history, videos, uploads, now, reply, boot>>

\* EnhanceRaises without the inner try: the exception reaches line 156.
EnhanceRaisesFatal(t, env) ==
    /\ At(t, "enhance")
    /\ "enhance" \in env.raises
    /\ Raise(t, EnhanceError)
    /\ UNCHANGED <<tasks, history, videos, uploads, now, reply, boot>>

\* Lines 93-94: the enhancer raises; the inner except clause logs and goes on.
EnhanceRaises(t, env) ==
    /\ At(t, "enhance")
    /\ "enhance" \in env.raises
    /\ threads' = [threads EXCEPT ![t].pc = "dispatch", ![t].exc = EnhanceError]
    /\ UNCHANGED <<tasks, history, videos, uploads, now, reply, boot>>

DispatchStage(mode) ==
    CASE mode = "text2video" -> "Generating video from text..."
      [] mode = "image2video" -> "Generating video from image..."
      [] mode = "edit" -> "Editing video..."

\* Lines 102-134: the mode's progress text, then the generator call; any
\* other mode leaves result = None.
Dispatch(t) ==
    /\ At(t, "dispatch")
    /\ IF threads[t].mode \in {"text2video", "image2video", "edit"}
         THEN /\ tasks' = SetField(tasks, Id(t), "progress", Stage(DispatchStage(threads[t].mode)))
              /\ Goto(t, "create")
         ELSE /\ Goto(t, "classify")
              /\ UNCHANGED tasks
    /\ UNCHANGED <<history, videos, uploads, now, reply, boot>>

\* video_generator.py 208-210 (and 252-276, 318-337): the content is built
\* and create_task returns a job id; poll_status starts its clock (line 81).
JobContent(th) ==
    CASE th.mode = "text2video" -> Content(None, Some(th.text))
      [] th.mode = "image2video" ->
           Content(th.image_path, IF th.text # "" THEN Some(th.text) ELSE None)
      [] th.mode = "edit" ->
           Content(IF th.video_path # None THEN th.video_path ELSE th.image_path,
                   Some(th.text))

CreateTask(t) ==
    /\ At(t, "create")
    /\ threads' = [threads EXCEPT ![t].pc = "poll", ![t].clock = 0,
                                  ![t].content = JobContent(threads[t])]
    /\ UNCHANGED <<tasks, history, videos, uploads, now, reply, boot>>

\* Reading the source file or the create call raises.
CreateRaises(t, env) ==
    /\ At(t, "create")
    /\ "create" \in env.raises
    /\ Raise(t, "create task error")
    /\ UNCHANGED <<tasks, history, videos, uploads, now, reply, boot>>

\* The frame of poll_status is gone once it returns or raises: its locals
\* start_time, elapsed and get_result no longer exist.
Unwound(th) == [th EXCEPT !.clock = 0, !.elapsed = 0, !.get_result = NoResponse]

\* Later on a clock that wraps around.
LaterWrapped(clock, d) == (clock + d) % MAX_POLL_TIME

\* The poll clock d seconds on.
Later(clock, d) == IF clock + d > MaxClock THEN MaxClock ELSE clock + d

\* poll_status returns res to the generator, which downloads (pc
\* "download") or returns res to the runner (pc "classify").
Returned(th, res, pc) ==
    [Unwound(th) EXCEPT !.result = Some(res), !.pc = pc,
                        !.content = IF pc = "download" THEN th.content ELSE NoContent]

\* DeadlinePassed against a limit no reading of the clock exceeds.
DeadlineNever(elapsed) == elapsed > MaxClock

\* Line 85 of video_generator.py: the deadline test on the elapsed time.
DeadlinePassed(elapsed) == elapsed > MAX_POLL_TIME

\* Lines 84-89: the deadline has passed; poll_status returns the timeout
\* dict, which the generator returns unchanged (line 214 is false).
PollTimeout(t) ==
    /\ At(t, "poll")
    /\ DeadlinePassed(threads[t].clock)
    /\ threads' = [threads EXCEPT ![t] = Returned(threads[t], TimeoutResult, "classify")]
    /\ UNCHANGED <<tasks, history, videos, uploads, now, reply, boot>>

\* Lines 84-95 and web_server.py 97: one status query, answered after d
\* seconds, and the first statement of progress_callback.
PollQuery(t, env) ==
    /\ At(t, "poll")
    /\ ~DeadlinePassed(threads[t].clock)
    /\ \E resp \in env.responses, d \in env.latencies :
         /\ threads' = [threads EXCEPT ![t].elapsed = threads[t].clock,
                                       ![t].clock = Later(threads[t].clock, d),
                                       ![t].get_result = resp,
                                       ![t].pc = "callback"]
         /\ tasks' = SetField(tasks, Id(t), "progress",
                              Progress("Status", resp.status, threads[t].clock))
    /\ UNCHANGED <<history, videos, uploads, now, reply, boot>>

\* Line 91: the status query raises; poll_status does not catch it.
QueryRaises(t, env) ==
    /\ At(t, "poll")
    /\ ~DeadlinePassed(threads[t].clock)
    /\ "query" \in env.raises
    /\ Raise(t, "status query error")
    /\ UNCHANGED <<tasks, history, videos, uploads, now, reply, boot>>

\* web_server.py 98: the second statement of progress_callback.
Callback(t) ==
    /\ At(t, "callback")
    /\ tasks' = SetField(tasks, Id(t), "elapsed", Some(threads[t].elapsed))
    /\ Goto(t, "status")
    /\ UNCHANGED <<history, videos, uploads, now, reply, boot>>

\* Lines 97-128 and 214: succeeded; the generator downloads when the
\* result carries a video URL.
PollSucceeded(t) ==
    /\ At(t, "status")
    /\ threads[t].get_result.status = "succeeded"
    /\ LET res == SucceededResult(threads[t].get_result) IN
         threads' = [threads EXCEPT ![t] = Returned(threads[t], res,
                                        IF Truthy(res.video_url) THEN "download" ELSE "classify")]
    /\ UNCHANGED <<tasks, history, videos, uploads, now, reply, boot>>

\* Lines 130-137.
PollFailed(t) ==
    /\ At(t, "status")
    /\ threads[t].get_result.status = "failed"
    /\ threads' = [threads EXCEPT ![t] = Returned(threads[t], FailedResult(threads[t].get_result),
                                                   "classify")]
    /\ UNCHANGED <<tasks, history, videos, uploads, now, reply, boot>>

\* Lines 139-142: any other status; sleep POLL_INTERVAL and loop.
PollSleep(t) ==
    /\ At(t, "status")
    /\ threads[t].get_result.status \notin {"succeeded", "failed"}
    /\ threads' = [threads EXCEPT ![t].clock = Later(threads[t].clock, POLL_INTERVAL),
                                  ![t].pc = "poll"]
    /\ UNCHANGED <<tasks, history, videos, uploads, now, reply, boot>>

\* download_video (144-180) and line 218: the local path, or None when the
\* request or the write raised.
DownloadVideo(t, env) ==
    /\ At(t, "download")
    /\ \E dl \in env.downloads :
         LET res == Val(threads[t].result)
             path == OutputPath(Id(t), Extension(dl.content_type, Val(res.video_url)))
             local == IF dl.outcome = "ok" THEN Some(path) ELSE None
         IN /\ threads' = [threads EXCEPT ![t].result = Some([res EXCEPT !.local_path = local]),
                                          ![t].content = NoContent,
                                          ![t].pc = "classify"]
            /\ videos' = IF dl.outcome = "request" THEN videos ELSE videos \cup {path}
    /\ UNCHANGED <<tasks, history, uploads, now, reply, boot>>

\* Line 136: "if result and result.get('status') == 'succeeded'".
Succeeded(result) == result # None /\ Val(result).status = "succeeded"

\* ErrorMsg with the poll result's error text ignored.
ErrorMsgDropped(result) == IF result = None THEN "No result" ELSE "Unknown error"

\* Line 151: result.get('error', 'Unknown error') if result else 'No result'
ErrorMsg(result) ==
    IF result = None THEN "No result"
    ELSE IF Val(result).error = None THEN "Unknown error"
    ELSE Val(Val(result).error)

\* Lines 144-148: the result dict of a completed task.
TaskResult(res) ==
    [video_url |-> res.video_url,
     local_path |-> res.local_path,
     video_filename |-> IF res.local_path # None
                          THEN Some(Basename(Val(res.local_path))) ELSE None]

\* Lines 136-143.
MarkCompleted(t) ==
    /\ At(t, "classify")
    /\ Succeeded(threads[t].result)
    /\ tasks' = [tasks EXCEPT ![Id(t)].status = "completed",
                              ![Id(t)].progress = Stage("Done!"),
                              ![Id(t)].completed_at = Some(now + 1)]
    /\ now' = now + 1
    /\ Goto(t, "set_result")
    /\ UNCHANGED <<history, videos, uploads, reply, boot>>

\* Lines 144-148.
SetResult(t) ==
    /\ At(t, "set_result")
    /\ tasks' = SetField(tasks, Id(t), "result", Some(TaskResult(Val(threads[t].result))))
    /\ Goto(t, "save")
    /\ UNCHANGED <<history, videos, uploads, now, reply, boot>>

\* MarkFailed that goes on to save_history without writing the record.
MarkFailedUnrecorded(t) ==
    /\ At(t, "classify")
    /\ ~Succeeded(threads[t].result)
    /\ Goto(t, "save")
    /\ UNCHANGED <<tasks, history, videos, uploads, now, reply, boot>>

\* Lines 150-152.
MarkFailed(t) ==
    /\ At(t, "classify")
    /\ ~Succeeded(threads[t].result)
    /\ tasks' = SetField(tasks, Id(t), "status", "failed")
    /\ threads' = [threads EXCEPT ![t].error_msg = ErrorMsg(threads[t].result),
                                  ![t].pc = "set_error"]
    /\ UNCHANGED <<history, videos, uploads, now, reply, boot>>

\* Line 153.
SetError(t) ==
    /\ At(t, "set_error")
    /\ tasks' = SetField(tasks, Id(t), "error", Some(threads[t].error_msg))
    /\ Goto(t, "save")
    /\ UNCHANGED <<history, videos, uploads, now, reply, boot>>

\* Line 158.
ExceptStatus(t) ==
    /\ At(t, "except")
    /\ tasks' = SetField(tasks, Id(t), "status", "failed")
    /\ Goto(t, "except_error")
    /\ UNCHANGED <<history, videos, uploads, now, reply, boot>>

\* Line 159.
ExceptError(t) ==
    /\ At(t, "except_error")
    /\ tasks' = SetField(tasks, Id(t), "error", Some(threads[t].exc))
    /\ Goto(t, "save")
    /\ UNCHANGED <<history, videos, uploads, now, reply, boot>>

\* ------------------------------------------------------------ save_history
\* json.dump(tasks): the document is the set of the dict's items.
JsonDump(d) == { <<k, d[k]>> : k \in DOMAIN d }

\* JsonLoad that keeps the records of completed tasks only.
JsonLoadCompleted(doc) ==
    [k \in {m[1] : m \in {n \in doc : n[2].status = "completed"}} |->
       (CHOOSE m \in doc : m[1] = k)[2]]

\* json.load: the dict of a document's items.
JsonLoad(doc) == [k \in {m[1] : m \in doc} |-> (CHOOSE m \in doc : m[1] = k)[2]]

\* Line 41: open(HISTORY_FILE, 'w') creates or truncates the file.
SaveOpen(t) ==
    /\ At(t, "save")
    /\ history' = [exists |-> TRUE, content |-> None]
    /\ Goto(t, "dump")
    /\ UNCHANGED <<tasks, videos, uploads, now, reply, boot>>

\* Line 42 and the end of the with block: the store is written; the runner
\* returns and its thread ends.
SaveDump(t) ==
    /\ At(t, "dump")
    /\ history' = [exists |-> TRUE, content |-> Some(JsonDump(tasks))]
    /\ Goto(t, "done")
    /\ UNCHANGED <<tasks, videos, uploads, now, reply, boot>>

\* ------------------------------------------------------------ the server
RunnerStep(t, env) ==
    \/ RunnerStart(t)
    \/ Construct(t)
    \/ ConstructRaises(t, env)
    \/ Enhance(t, env)
    \/ EnhanceRaises(t, env)
    \/ Dispatch(t)
    \/ CreateTask(t)
    \/ CreateRaises(t, env)
    \/ PollTimeout(t)
    \/ PollQuery(t, env)
    \/ QueryRaises(t, env)
    \/ Callback(t)
    \/ PollSucceeded(t)
    \/ PollFailed(t)
    \/ PollSleep(t)
    \/ DownloadVideo(t, env)
    \/ MarkCompleted(t)
    \/ SetResult(t)
    \/ MarkFailed(t)
    \/ SetError(t)
    \/ ExceptStatus(t)
    \/ ExceptError(t)
    \/ SaveOpen(t)
    \/ SaveDump(t)

AllRaises == {"construct", "enhance", "create", "query"}

\* One runner at a time, every input of the model.
RunnerEnv ==
    Environment(AllRequests, AllRaises, {"", "a cat, cinematic"}, AllResponses,
                {SlowLatency, MAX_POLL_TIME}, AllDownloads)

NextRunner ==
    \/ GenerateRejected(RunnerEnv.requests)
    \/ GenerateAccepted(1, RunnerEnv.requests)
    \/ RunnerStep(1, RunnerEnv)

SpecRunner == Init /\ [][NextRunner]_vars

\* Concurrent runners: text-only requests, a remote that answers a status
\* query after MAX_POLL_TIME seconds, one response of each kind.
ServerRequests ==
    { req \in AllRequests : req.image_id = None /\ req.video_id = None /\ req.text # " " }

ServerResponses ==
    { Response("running", "absent", NoAttr, NoAttr, NoAttr, NoAttr),
      Response("failed", "absent", NoAttr, NoAttr, NoAttr, Attr(Some("quota exceeded"))),
      Response("succeeded", "object", Attr(Some(UrlContent)), NoAttr, NoAttr, NoAttr),
      Response("succeeded", "none", NoAttr, NoAttr, NoAttr, NoAttr) }

ServerEnv ==
    Environment(ServerRequests, AllRaises, {"a cat, cinematic"}, ServerResponses,
                {MAX_POLL_TIME}, {Download("ok", "video/mp4"), Download("request", "")})

Next ==
    \/ GenerateRejected(ServerEnv.requests)
    \/ \E t \in Threads :
         \/ GenerateAccepted(t, ServerEnv.requests)
         \/ RunnerStep(t, ServerEnv)

Spec == Init /\ [][Next]_vars

\* ------------------------------------------------------- POST /api/upload
\* A file name is <<stem, ext>>, ext the text after its last dot, None when
\* the name has no dot; "" is the empty name.
NoFile == <<"none">>
FileName(stem, ext) == <<stem, ext>>
EmptyName == FileName("", None)

AllFiles ==
    {NoFile, EmptyName, FileName("clip", None)}
    \cup { FileName("clip", Some(e)) : e \in {"png", "PNG", "exe", "mp4", "mov"} }

ALLOWED_IMAGE_EXTENSIONS == {"png", "jpg", "jpeg", "gif", "webp"}
ALLOWED_VIDEO_EXTENSIONS == {"mp4", "webm", "mov"}

\* str.lower() on the extensions of the model.
Lower(e) == IF e = "PNG" THEN "png" ELSE e

\* Lines 54-59.
allowed_file(filename, file_type) ==
    LET allowed == IF file_type = "image" THEN ALLOWED_IMAGE_EXTENSIONS
                   ELSE ALLOWED_VIDEO_EXTENSIONS
    IN  filename[2] # None /\ Lower(Val(filename[2])) \in allowed

\* Line 186: f"{uuid.uuid4().hex[:8]}.{ext}", one generated prefix per
\* extension.
UniqueFilename(ext) ==
    CASE ext = "png" -> ImageOk
      [] ext = "mp4" -> VideoOk
      [] OTHER -> "mov1.mov"

\* Lines 172-179: no file part, or an empty file name.
UploadMissing(files) ==
    /\ {NoFile, EmptyName} \cap files # {}
    /\ reply' = Reply(400, "invalid")
    /\ UNCHANGED <<tasks, threads, history, videos, uploads, now, boot>>

\* Lines 181-182: the extension is not allowed for the declared type; the
\* error body is returned without a status code.
UploadDisallowed(files) ==
    /\ \E f \in files \ {NoFile, EmptyName}, ty \in {"image", "video"} :
          ~allowed_file(f, ty)
    /\ reply' = Reply(200, "invalid")
    /\ UNCHANGED <<tasks, threads, history, videos, uploads, now, boot>>

\* Lines 185-195.
UploadAccepted(files) ==
    /\ \E f \in files \ {NoFile, EmptyName}, ty \in {"image", "video"} :
          /\ allowed_file(f, ty)
          /\ uploads' = uploads \cup {UniqueFilename(Lower(Val(f[2])))}
    /\ reply' = Reply(200, "upload")
    /\ UNCHANGED <<tasks, threads, history, videos, now, boot>>

\* --------------------------- GET /api/download/<id>, GET /api/preview/<id>
\* Lines 266-281 and 287-298; task['result'] on a record without that key
\* raises KeyError, which Flask answers with a 500.
ServeReply(id, body) ==
    IF id \notin DOMAIN tasks THEN Reply(404, "error")
    ELSE IF tasks[id].status # "completed" THEN Reply(400, "error")
    ELSE IF tasks[id].result = None THEN Reply(500, "error")
    ELSE IF Val(tasks[id].result).local_path = None THEN Reply(404, "error")
    ELSE IF Val(Val(tasks[id].result).local_path) \notin videos THEN Reply(404, "error")
    ELSE Reply(200, body)

download(ids) ==
    /\ \E id \in ids : reply' = ServeReply(id, "attachment")
    /\ UNCHANGED <<tasks, threads, history, videos, uploads, now, boot>>

preview(ids) ==
    /\ \E id \in ids : reply' = ServeReply(id, "inline")
    /\ UNCHANGED <<tasks, threads, history, videos, uploads, now, boot>>

\* ------------------------------------------------------- process restart
\* Lines 25-37 and 47: the store of a starting process.
load_history(h) ==
    IF h.exists /\ h.content # None THEN JsonLoad(Val(h.content)) ELSE <<>>

\* The process stops at any point (its threads with it) and starts again:
\* the files stay, the store is loaded from the history file.
Restart ==
    /\ boot < MaxBoots
    /\ boot' = boot + 1
    /\ tasks' = load_history(history)
    /\ threads' = [t \in Threads |-> IdleThread]
    /\ reply' = NoReply
    /\ UNCHANGED <<history, videos, uploads, now>>

\* One runner and the handlers of the HTTP surface.
NextHttp ==
    \/ GenerateRejected(ServerEnv.requests)
    \/ GenerateAccepted(1, ServerEnv.requests)
    \/ RunnerStep(1, ServerEnv)
    \/ UploadMissing(AllFiles)
    \/ UploadDisallowed(AllFiles)
    \/ UploadAccepted(AllFiles)
    \/ download(TaskIds)
    \/ preview(TaskIds)

SpecHttp == Init /\ [][NextHttp]_vars

\* Process lifetimes: one runner per process, text-to-video requests, a
\* remote that answers a status query after MAX_POLL_TIME seconds, downloads
\* that work.
LifeRequests == { req \in ServerRequests : req.mode = "text2video" }

LifeResponses == { resp \in ServerResponses : resp.content # "none" }

LifeEnv ==
    Environment(LifeRequests, AllRaises, {"a cat, cinematic"}, LifeResponses,
                {MAX_POLL_TIME}, {Download("ok", "video/mp4")})

NextLife ==
    \/ GenerateRejected(LifeEnv.requests)
    \/ GenerateAccepted(1, LifeEnv.requests)
    \/ RunnerStep(1, LifeEnv)
    \/ Restart

SpecLife == Init /\ [][NextLife]_vars

\* Two accepted requests in a process of which only the first runner has
\* been scheduled, and one restart.
NextOrphan ==
    \/ \E t \in Threads : GenerateAccepted(t, LifeEnv.requests)
    \/ RunnerStep(1, LifeEnv)
    \/ boot = 0 /\ Restart

SpecOrphan == Init /\ [][NextOrphan]_vars

\* ------------------------------------------------------------------ claims
\* Thread t takes a step from pc (every step of a runner changes its own
\* thread record, and nothing else does).
StepOf(t, pc) == threads[t].pc = pc /\ threads'[t] # threads[t]

Terminal(status) == status \in {"completed", "failed"}

StatusMove(a, b) ==
    \/ a = b
    \/ a = "pending" /\ b = "processing"
    \/ a = "processing" /\ Terminal(b)

\* C1: in every step the status of the record stored under a task id stays
\* as it is or moves pending -> processing -> completed | failed; it never
\* moves backwards and never leaves completed or failed.
C1_StatusMonotonic ==
    [][\A id \in DOMAIN tasks :
          id \in DOMAIN tasks' /\ StatusMove(tasks[id].status, tasks'[id].status)]_vars

\* C2: in every state of the store each record has a result iff its status is
\* completed, an error iff its status is failed, and never both.
C2_ResultIffCompleted ==
    \A id \in DOMAIN tasks :
       /\ tasks[id].result # None <=> tasks[id].status = "completed"
       /\ tasks[id].error # None <=> tasks[id].status = "failed"
       /\ ~(tasks[id].result # None /\ tasks[id].error # None)

\* C3: a runner whose poll returned succeeded without a video URL marks its
\* task failed, not completed.
C3_NoArtifactFails ==
    [][\A t \in Threads :
          (/\ StepOf(t, "classify")
           /\ Succeeded(threads[t].result)
           /\ ~Truthy(Val(threads[t].result).video_url))
          => tasks'[Id(t)].status = "failed"]_vars

\* C4: a runner whose remote job succeeded with a video URL but whose download
\* failed (no local path) marks its task failed, not completed.
C4_DownloadFailureFails ==
    [][\A t \in Threads :
          (/\ StepOf(t, "classify")
           /\ Succeeded(threads[t].result)
           /\ Truthy(Val(threads[t].result).video_url)
           /\ Val(threads[t].result).local_path = None)
          => tasks'[Id(t)].status = "failed"]_vars

\* C5: a runner whose poll ended failed or timed out writes status failed and
\* then, as error, the error text of the poll result (the remote's error text,
\* or the timeout message), and does not touch the record afterwards.
C5_PollFailureRecorded ==
    [][\A t \in Threads :
          /\ (StepOf(t, "status") /\ threads[t].get_result.status = "failed")
               => (/\ threads'[t].pc = "classify"
                   /\ Val(threads'[t].result).status = "failed"
                   /\ Val(threads'[t].result).error =
                        Some(RemoteErrorText(threads[t].get_result)))
          /\ (StepOf(t, "poll") /\ threads'[t].pc = "classify")
               => (/\ threads[t].clock > MAX_POLL_TIME
                   /\ Val(threads'[t].result).status = "timeout"
                   /\ Val(threads'[t].result).error = Some("Task timed out after 600s"))
          /\ (/\ StepOf(t, "classify")
              /\ threads[t].result # None
              /\ Val(threads[t].result).status \in {"failed", "timeout"})
               => (/\ tasks'[Id(t)].status = "failed"
                   /\ threads'[t].pc = "set_error"
                   /\ Some(threads'[t].error_msg) = Val(threads[t].result).error)
          /\ StepOf(t, "set_error")
               => (/\ tasks'[Id(t)].error = Some(threads[t].error_msg)
                   /\ tasks'[Id(t)].status = tasks[Id(t)].status
                   /\ threads'[t].pc = "save")
          /\ (StepOf(t, "save") \/ StepOf(t, "dump")) => tasks' = tasks]_vars

C5_Witness ==
    \E t \in Threads :
       /\ threads[t].pc = "done"
       /\ threads[t].result # None
       /\ Val(threads[t].result).status = "timeout"
       /\ tasks[Id(t)].status = "failed"
       /\ tasks[Id(t)].error = Some("Task timed out after 600s")

\* C6 as stated: a runner in which any step raised ends with its task failed
\* and error equal to the exception text.
C6_AnyExceptionFails ==
    \A t \in Threads :
       (threads[t].pc = "done" /\ threads[t].exc # "")
         => (/\ tasks[Id(t)].status = "failed"
             /\ tasks[Id(t)].error = Some(threads[t].exc))

\* C6 as amended: an exception raised by any step other than the prompt
\* enhancement call reaches the runner's top-level handler, which writes status
\* failed, then error = the exception text, then rewrites the history file
\* from the store and lets the thread end.
C6_UnexpectedExceptionFails ==
    [][\A t \in Threads :
          /\ (threads'[t].exc # threads[t].exc /\ threads'[t].exc # EnhanceError)
               => threads'[t].pc = "except"
          /\ StepOf(t, "except")
               => (/\ tasks'[Id(t)].status = "failed"
                   /\ threads'[t].pc = "except_error"
                   /\ threads'[t].exc = threads[t].exc)
          /\ StepOf(t, "except_error")
               => (/\ tasks'[Id(t)].error = Some(threads[t].exc)
                   /\ tasks'[Id(t)].status = tasks[Id(t)].status
                   /\ threads'[t].pc = "save")
          /\ StepOf(t, "save")
               => (threads'[t].pc = "dump" /\ history'.exists /\ tasks' = tasks)
          /\ StepOf(t, "dump")
               => (/\ threads'[t].pc = "done"
                   /\ history' = [exists |-> TRUE, content |-> Some(JsonDump(tasks))]
                   /\ tasks' = tasks)]_vars

C6_Witness ==
    \E t \in Threads :
       /\ threads[t].pc = "done"
       /\ threads[t].exc = "status query error"
       /\ tasks[Id(t)].status = "failed"
       /\ tasks[Id(t)].error = Some("status query error")
       /\ history.content # None
       /\ <<Id(t), tasks[Id(t)]>> \in Val(history.content)

\* C7: when the prompt enhancement call raises, the runner goes on to the
\* generation step with its prompt unchanged (the text the request carried),
\* writes nothing to the store in that step, never writes enhanced_prompt
\* afterwards, and submits the job with the request's text.
C7_EnhanceFailureNotFatal ==
    [][\A t \in Threads :
          /\ (StepOf(t, "enhance") /\ threads'[t].exc # threads[t].exc)
               => (/\ threads'[t].pc = "dispatch"
                   /\ threads'[t].text = threads[t].args_text
                   /\ tasks' = tasks)
          /\ threads'[t].exc = EnhanceError
               => (/\ threads'[t].text = threads'[t].args_text
                   /\ threads'[t].pc \notin {"except", "except_error"})
          /\ (threads[t].exc = EnhanceError /\ threads'[t] # threads[t])
               => tasks'[Id(t)].enhanced_prompt = tasks[Id(t)].enhanced_prompt
          /\ (StepOf(t, "create") /\ threads[t].exc = EnhanceError /\ threads'[t].pc = "poll")
               => threads'[t].content =
                    JobContent([threads[t] EXCEPT !.text = threads[t].args_text])]_vars

C7_Witness ==
    \E t \in Threads :
       /\ threads[t].pc = "poll"
       /\ threads[t].exc = EnhanceError
       /\ threads[t].content.text = Some(threads[t].args_text)
       /\ tasks[Id(t)].enhanced_prompt = None
       /\ tasks[Id(t)].status = "processing"

\* The specification of one runner under weak fairness: a started thread that
\* can take a step eventually takes one (the thread runs until it ends).
FairSpecRunner == SpecRunner /\ WF_vars(RunnerStep(1, RunnerEnv))

PollPcs == {"poll", "callback", "status"}

\* C8: a runner inside poll_status eventually leaves it, whatever the remote
\* answers; a pass of the loop that finds more than MAX_POLL_TIME seconds
\* elapsed returns the timeout result without another query.
C8_PollingTerminates ==
    /\ \A t \in Threads :
          (threads[t].pc \in PollPcs) ~> (threads[t].pc \notin PollPcs)
    /\ [][\A t \in Threads :
            (StepOf(t, "poll") /\ threads[t].clock > MAX_POLL_TIME)
               => (/\ threads'[t].pc = "classify"
                   /\ threads'[t].result = Some(TimeoutResult))]_vars

C8_Witness ==
    \E t \in Threads :
       /\ threads[t].pc = "classify"
       /\ threads[t].result = Some(TimeoutResult)
       /\ threads[t].exc = ""

\* The cap on the modelled clock is never reached by the program.
ClockBelowCap == \A t \in Threads : threads[t].clock < MaxClock

\* C9: when the succeeded response has a content object whose video_url
\* attribute holds a non-empty value, the poll result's video_url is that value,
\* whatever content.video and the top-level video_url hold.
C9_ContentUrlPreferred ==
    [][\A t \in Threads :
          (/\ StepOf(t, "status")
           /\ threads[t].get_result.status = "succeeded"
           /\ threads[t].get_result.content = "object"
           /\ HasAttr(threads[t].get_result.c_video_url)
           /\ Truthy(Val(threads[t].get_result.c_video_url)))
            => (/\ threads'[t].result # None
                /\ Val(threads'[t].result).status = "succeeded"
                /\ Val(threads'[t].result).video_url =
                     Val(threads[t].get_result.c_video_url))]_vars

C9_Witness ==
    \E t \in Threads :
       /\ threads[t].pc = "download"
       /\ Val(threads[t].result).video_url = Some(UrlContent)

\* The first non-empty value among content.video_url, content.video and the
\* top-level video_url of a response, None when there is none.
FirstNonEmpty(resp) ==
    LET cands == (IF resp.content = "object"
                    THEN <<resp.c_video_url, resp.c_video>>
                    ELSE <<>>) \o <<resp.video_url>>
        held == SelectSeq(cands, LAMBDA a : HasAttr(a) /\ Truthy(Val(a)))
    IN  IF held = <<>> THEN None ELSE Val(held[1])

\* C10: the poll result's video_url of a succeeded response is the first
\* non-empty value among content.video_url, content.video and the top-level
\* video_url, and empty only when all three are.
C10_FirstMatchWins ==
    [][\A t \in Threads :
          (StepOf(t, "status") /\ threads[t].get_result.status = "succeeded")
            => (/\ threads'[t].result # None
                /\ LET got == Val(threads'[t].result).video_url
                       want == FirstNonEmpty(threads[t].get_result)
                   IN  IF Truthy(want) THEN got = want ELSE ~Truthy(got))]_vars

\* C11: within one poll the elapsed value handed to a progress callback is
\* never smaller than the one handed to the callback before it, and the
\* callback stores that value; a non-terminal status keeps the poll going and
\* a succeeded status makes poll_status return a succeeded result.
C11_PollSuccessMonotoneElapsed ==
    [][\A t \in Threads :
          /\ (StepOf(t, "poll") /\ threads'[t].pc = "callback")
               => (/\ threads'[t].elapsed >= threads[t].elapsed
                   /\ threads'[t].elapsed <= MAX_POLL_TIME)
          /\ StepOf(t, "callback")
               => (/\ tasks'[Id(t)].elapsed = Some(threads[t].elapsed)
                   /\ tasks[Id(t)].elapsed # None
                        => Val(tasks'[Id(t)].elapsed) >= Val(tasks[Id(t)].elapsed))
          /\ (StepOf(t, "status") /\ threads[t].get_result.status \in {"queued", "running"})
               => (threads'[t].pc = "poll" /\ threads'[t].result = None)
          /\ (StepOf(t, "status") /\ threads[t].get_result.status = "succeeded")
               => (/\ threads'[t].result # None
                   /\ Val(threads'[t].result).status = "succeeded"
                   /\ threads'[t].pc \in {"download", "classify"})]_vars

C11_Witness ==
    \E t \in Threads :
       /\ threads[t].pc = "download"
       /\ Val(threads[t].result).status = "succeeded"
       /\ Truthy(Val(threads[t].result).video_url)
       /\ tasks[Id(t)].elapsed # None
       /\ Val(tasks[Id(t)].elapsed) >= POLL_INTERVAL

ValidModes == {"text2video", "image2video", "edit"}

\* C12: every record of the store was created by a request of one of the
\* three valid forms: its mode is text2video (with non-empty text),
\* image2video or edit.
C12_RecordsOnlyForValidForms ==
    \A id \in DOMAIN tasks :
       /\ tasks[id].params.mode \in ValidModes
       /\ tasks[id].params.mode = "text2video" => Strip(tasks[id].params.prompt) # ""

C14_IdsNeverReused ==
    [][\A t \in Threads :
          (threads[t].pc = "idle" /\ threads'[t].pc = "start")
            => threads'[t].task_id \notin DOMAIN tasks]_vars

\* A runner thread that has started and not ended.
Active(t) == threads[t].pc \notin {"idle", "done"}

\* C15: no two active runner threads have the same task id.
C15_OneRunnerPerId ==
    \A t, u \in Threads :
       (t # u /\ Active(t) /\ Active(u)) => threads[t].task_id # threads[u].task_id

\* The runner of every record stored under id has ended (or belonged to an
\* earlier process): its save_history has returned.
Persisted(id) == \A t \in Threads : threads[t].task_id = id => threads[t].pc = "done"

\* C16: a restart keeps every completed record whose runner had persisted it:
\* the restored store holds an equal record under the same id.
C16_CompletedSurvivesRestart ==
    [][boot' # boot
         => \A id \in DOMAIN tasks :
               (tasks[id].status = "completed" /\ tasks[id].result # None /\ Persisted(id))
                 => (id \in DOMAIN tasks' /\ tasks'[id] = tasks[id])]_vars

\* C17: the history file, once it exists, always holds a complete document.
C17_SnapshotAlwaysComplete == history.exists => history.content # None

\* C18: once a runner has ended, the history file holds a complete document
\* with that runner's task in a terminal status with its result or error.
C18_TerminalIsPersisted ==
    \A t \in Threads :
       threads[t].pc = "done"
         => (/\ history.content # None
             /\ \E m \in Val(history.content) :
                  /\ m[1] = Id(t)
                  /\ Terminal(m[2].status)
                  /\ m[2].result # None \/ m[2].error # None)

\* C19: a download or preview request is answered with the file, with 400 or
\* with 404.
C19_ServeNeverFails ==
    [][(reply' # reply /\ reply'.body \in {"error", "attachment", "inline"})
         => reply'.code \in {200, 400, 404}]_vars

\* C20: a starting process holds exactly the records of the history file when
\* the file holds a complete document, and an empty store when the file is
\* missing or not a complete document; it has no runner and takes requests.
C20_RestoreIsNonFatal ==
    [][boot' # boot
         => /\ (history.exists /\ history.content # None)
                 => (/\ DOMAIN tasks' = {m[1] : m \in Val(history.content)}
                     /\ \A m \in Val(history.content) : tasks'[m[1]] = m[2])
            /\ ~(history.exists /\ history.content # None) => tasks' = <<>>
            /\ \A t \in Threads : threads'[t] = IdleThread
            /\ history' = history]_vars

\* A process that started from a truncated history file with an empty store
\* and has accepted a request since.
C20_Witness ==
    /\ boot > 0
    /\ history.exists /\ history.content = None
    /\ \A t \in Threads : threads[t].pc # "dump"
    /\ \E id \in DOMAIN tasks : tasks[id].status = "pending"

\* C21: a request creates its record with params equal to the request's mode
\* and text and the ratio and duration it asked for, and no step of a runner
\* changes the params of any record, whatever the runner's working prompt.
C21_ParamsImmutable ==
    [][\A t \in Threads :
          /\ (threads[t].pc = "idle" /\ threads'[t].pc = "start")
               => tasks'[threads'[t].task_id].params =
                    [mode |-> threads'[t].mode, prompt |-> threads'[t].args_text,
                     ratio |-> "16:9", duration |-> DEFAULT_DURATION]
          /\ (threads[t].pc # "idle" /\ threads'[t] # threads[t] /\ boot' = boot)
               => \A id \in DOMAIN tasks :
                     id \in DOMAIN tasks' /\ tasks'[id].params = tasks[id].params]_vars

C21_Witness ==
    \E t \in Threads :
       /\ threads[t].pc = "poll"
       /\ tasks[Id(t)].enhanced_prompt = Some(threads[t].text)
       /\ threads[t].text # threads[t].args_text
       /\ tasks[Id(t)].params.prompt = threads[t].args_text
       /\ threads[t].content.text = Some(threads[t].text)

\* C22: the progress callback never runs for a status query that returned
\* succeeded or failed: a step into the callback follows a non-terminal
\* answer, and no record's progress shows a terminal remote status.
C22_NoCallbackOnTerminal ==
    [][\A t \in Threads :
          (StepOf(t, "poll") /\ threads'[t].pc = "callback")
            => (/\ threads'[t].get_result.status \notin {"succeeded", "failed"}
                /\ tasks'[Id(t)].progress.status \notin {"succeeded", "failed"})]_vars

\* C23: a status query is issued only while the time elapsed since the start
\* of the poll is below MAX_POLL_TIME; at MAX_POLL_TIME or later the poll
\* returns the timeout result.
C23_NoQueryAtDeadline ==
    [][\A t \in Threads :
          StepOf(t, "poll")
            => IF threads[t].clock < MAX_POLL_TIME
                 THEN threads'[t].pc \in {"callback", "except"}
                 ELSE threads'[t].pc = "classify"
                      /\ threads'[t].result = Some(TimeoutResult)]_vars

\* C24: under fair scheduling of the runner, the record of every accepted
\* request eventually has status completed or failed.
C24_EveryTaskEnds ==
    \A id \in TaskIds :
       (id \in DOMAIN tasks) ~> (id \in DOMAIN tasks /\ Terminal(tasks[id].status))

C24_Witness ==
    \E t \in Threads :
       /\ threads[t].pc = "done"
       /\ threads[t].exc = ""
       /\ tasks[Id(t)].status = "completed"
       /\ tasks[Id(t)].elapsed # None /\ Val(tasks[Id(t)].elapsed) > 0

\* No runner thread of this process has the task id: the record was restored.
Orphan(id) == \A t \in Threads : threads[t].task_id # id

\* C25: save_history writes every record of the store, and a record restored
\* with status pending or processing is never changed again while the
\* process lives.
C25_OrphanNeverChanges ==
    [][/\ \A t \in Threads :
            (StepOf(t, "dump") /\ boot' = boot)
              => history'.content = Some(JsonDump(tasks))
       /\ \A id \in DOMAIN tasks :
            (/\ boot > 0 /\ boot' = boot
             /\ Orphan(id)
             /\ tasks[id].status \in {"pending", "processing"})
              => (id \in DOMAIN tasks' /\ tasks'[id] = tasks[id])]_vars

\* C26: a step of the runner of one id leaves the set of ids of the store and
\* the record of every other id unchanged; the set of ids changes only when a
\* request is accepted or the process starts.
C26_RunnerWritesOwnRecord ==
    [][/\ \A t \in Threads :
            (threads[t].pc # "idle" /\ threads'[t] # threads[t] /\ boot' = boot)
              => (/\ DOMAIN tasks' = DOMAIN tasks
                  /\ \A id \in DOMAIN tasks : id # Id(t) => tasks'[id] = tasks[id])
       /\ DOMAIN tasks' # DOMAIN tasks
            => \/ boot' # boot
               \/ \E t \in Threads : threads[t].pc = "idle" /\ threads'[t].pc = "start"]_vars

C26_Witness ==
    \E t \in Threads, id \in DOMAIN tasks :
       /\ threads[t].pc = "done"
       /\ id # Id(t)
       /\ tasks[Id(t)].status = "completed"
       /\ tasks[Id(t)].enhanced_prompt # None
       /\ tasks[id].status = "pending"
       /\ tasks[id].elapsed = None /\ tasks[id].enhanced_prompt = None

====
